---- MODULE Spec2Model ----
(***************************************************************************)
(* abeye: OpenAPI document -> interned Type tree -> TypeScript client.     *)
(* The model follows src/src/lib.rs (Type store, schema_by_name,           *)
(* schema_ty, shallow_schema_ty, simplify_ty, operation) and               *)
(* src/src/ts.rs (generate_ts, Type::ts, Operation::ts).                   *)
(*                                                                         *)
(* Strings that the code inspects (schema names, references) are sequences *)
(* of one-character strings, so that strip_prefix and contains('_') are    *)
(* computed, not assumed.  The 21-character prefix                         *)
(* "#/components/schemas/" is the single token PrefixTok.                   *)
(* A panic (todo!, unwrap on None, assert_eq!, salsa's cycle panic) is the *)
(* result ok = FALSE; it propagates to the caller unchanged.               *)
(***************************************************************************)
EXTENDS Integers, Sequences, FiniteSets, TLC

VARIABLES doc, store, pc, idx, operations, types, buf, why, memo

vars == <<doc, store, pc, idx, operations, types, buf, why, memo>>

(***************************************************************************)
(* Bounds of the model.                                                    *)
(***************************************************************************)
\* number of component schemas of an enumerated document of inline shapes
MaxSchemas == 2
\* number of members of a oneOf / allOf shape
MaxMembers == 3

(***************************************************************************)
(* Strings.                                                                *)
(***************************************************************************)
PrefixTok == "#/components/schemas/"

Prefixed(name) == <<PrefixTok>> \o name

\* str::strip_prefix("#/components/schemas/"): <<rest>> or <<>> for None
strip_prefix(s) ==
    IF Len(s) >= 1 /\ s[1] = PrefixTok THEN <<SubSeq(s, 2, Len(s))>> ELSE <<>>

\* str::contains('_')
contains_underscore(s) == \E i \in 1..Len(s) : s[i] = "_"

(***************************************************************************)
(* TypeKind (lib.rs 45-57) and Property (lib.rs 59-71).                    *)
(* A kind is the record [k, s, fs, ts]: the variant, its string payload,   *)
(* its BTreeMap of fields and its Vec of member Types.  A Type is the      *)
(* index of its kind in the store (the salsa intern id).                   *)
(***************************************************************************)
\* the keys a BTreeMap<String, Property> can hold, in BTreeMap (String) order
FieldOrder == <<"a", "b", "kind">>

FieldNames == {FieldOrder[i] : i \in 1..Len(FieldOrder)}

Absent == [ty |-> 0, optional |-> FALSE, present |-> FALSE]

Property(ty, optional) == [ty |-> ty, optional |-> optional, present |-> TRUE]

required(ty) == Property(ty, FALSE)

NoFields == [f \in FieldNames |-> Absent]

Kind(k, s, fs, ts) == [k |-> k, s |-> s, fs |-> fs, ts |-> ts]

KReference(name) == Kind("Reference", name, NoFields, <<>>)
KObject(fs) == Kind("Object", <<>>, fs, <<>>)
KArray(t) == Kind("Array", <<>>, NoFields, <<t>>)
KTuple(ts) == Kind("Tuple", <<>>, NoFields, ts)
KOr(ts) == Kind("Or", <<>>, NoFields, ts)
KAnd(ts) == Kind("And", <<>>, NoFields, ts)
KNumber == Kind("Number", <<>>, NoFields, <<>>)
KIdent(v) == Kind("Ident", v, NoFields, <<>>)
KString == Kind("String", <<>>, NoFields, <<>>)
KBoolean == Kind("Boolean", <<>>, NoFields, <<>>)

(***************************************************************************)
(* Type::new: salsa interning.  An equal kind returns the id it already    *)
(* has; a new kind gets the next id.  Result: [st, ty].                    *)
(***************************************************************************)
TypeNew(st, kind) ==
    IF \E i \in 1..Len(st) : st[i] = kind
    THEN [st |-> st, ty |-> CHOOSE i \in 1..Len(st) : st[i] = kind]
    ELSE [st |-> Append(st, kind), ty |-> Len(st) + 1]

(***************************************************************************)
(* itertools sorted() and dedup() over Vec<Type>.  Type derives Ord from   *)
(* its intern id, so the order is the order of the ids.                    *)
(***************************************************************************)
RECURSIVE InsertSorted(_, _)
InsertSorted(x, s) ==
    IF s = <<>> THEN <<x>>
    ELSE IF x < Head(s) THEN <<x>> \o s
    ELSE <<Head(s)>> \o InsertSorted(x, Tail(s))

RECURSIVE sorted(_)
sorted(s) == IF s = <<>> THEN <<>> ELSE InsertSorted(Head(s), sorted(Tail(s)))

\* dedup(): drops an element equal to the one before it
RECURSIVE dedup(_)
dedup(s) ==
    IF Len(s) <= 1 THEN s
    ELSE IF s[1] = s[2] THEN dedup(Tail(s))
    ELSE <<Head(s)>> \o dedup(Tail(s))

\* .dedup().sorted(): the two calls in the other order
DedupThenSorted(s) == sorted(dedup(s))

\* .dedup() alone: the sort left out
DedupUnsorted(s) == dedup(s)

\* .sorted().dedup()  (lib.rs 465-466, 474-475)
SortedDedup(s) == dedup(sorted(s))

(***************************************************************************)
(* simplify_ty (lib.rs 434-509).  Result: [st, ty].  The salsa memo table  *)
(* of the tracked function returns the value the function computes, so the *)
(* function is modelled without it.                                        *)
(***************************************************************************)
\* fields.insert(field, ty) alone: the new value always stays
InsertFieldKeepNew(st, old, new) == new

\* lib.rs 488-495: fields.insert(field, ty), and the old value put back when
\* the old type is an Ident and the new one is String
InsertField(st, old, new) ==
    IF old.present /\ st[old.ty].k = "Ident" /\ st[new.ty].k = "String"
    THEN old
    ELSE new

\* lib.rs 482-500: the fields of the members, inserted member after member
RECURSIVE MergeObjects(_, _, _)
MergeObjects(st, options, fields) ==
    IF options = <<>> THEN fields
    ELSE LET fs == st[Head(options)].fs
             next == [f \in FieldNames |->
                        IF fs[f].present
                        THEN InsertField(st, fields[f], fs[f])
                        ELSE fields[f]]
         IN  MergeObjects(st, Tail(options), next)

\* lib.rs 478-480
AllObjects(st, options) == \A i \in 1..Len(options) : st[options[i]].k = "Object"

RECURSIVE simplify_ty(_, _)
RECURSIVE SimplifyAll(_, _)
RECURSIVE SimplifyFields(_, _, _)

\* .iter().map(|opt| simplify_ty(db, *opt)) over a Vec<Type>: [st, tys]
SimplifyAll(st, ts) ==
    IF ts = <<>> THEN [st |-> st, tys |-> <<>>]
    ELSE LET r == simplify_ty(st, Head(ts))
             rest == SimplifyAll(r.st, Tail(ts))
         IN  [st |-> rest.st, tys |-> <<r.ty>> \o rest.tys]

\* lib.rs 441-451: the properties of an Object, in BTreeMap order: [st, fs]
SimplifyFields(st, fs, i) ==
    IF i > Len(FieldOrder) THEN [st |-> st, fs |-> fs]
    ELSE LET f == FieldOrder[i]
         IN  IF ~fs[f].present THEN SimplifyFields(st, fs, i + 1)
             ELSE LET r == simplify_ty(st, fs[f].ty)
                  IN  SimplifyFields(r.st,
                         [fs EXCEPT ![f] = Property(r.ty, fs[f].optional)], i + 1)

\* lib.rs 459-469
simplify_or(st, ty) ==
    LET r == SimplifyAll(st, st[ty].ts)
    IN  TypeNew(r.st, KOr(SortedDedup(r.tys)))

\* lib.rs 470-506
simplify_and(st, ty) ==
    LET r == SimplifyAll(st, st[ty].ts)
        options == SortedDedup(r.tys)
    IN  IF AllObjects(r.st, options)
        THEN TypeNew(r.st, KObject(MergeObjects(r.st, options, NoFields)))
        ELSE TypeNew(r.st, KAnd(options))

simplify_ty(st, ty) ==
    LET k == st[ty].k
    IN  CASE k = "Reference" -> [st |-> st, ty |-> ty]
          [] k = "Object" ->
               LET r == SimplifyFields(st, st[ty].fs, 1)
               IN  TypeNew(r.st, KObject(r.fs))
          [] k = "Array" ->
               LET r == simplify_ty(st, st[ty].ts[1])
               IN  TypeNew(r.st, KArray(r.ty))
          [] k = "Tuple" ->
               LET r == SimplifyAll(st, st[ty].ts)
               IN  TypeNew(r.st, KTuple(r.tys))
          [] k = "Or" -> simplify_or(st, ty)
          [] k = "And" -> simplify_and(st, ty)
          [] OTHER -> [st |-> st, ty |-> ty]

(***************************************************************************)
(* The OpenAPI document (openapiv3).  ReferenceOr<Schema> is a record:     *)
(* ref = TRUE with its reference string, or an item with its SchemaKind    *)
(* and the parts of it the code reads.  Option<T> is a sequence of length  *)
(* at most one; an IndexMap is the sequence of its entries in document     *)
(* order.                                                                  *)
(***************************************************************************)
SchemaRec(ref, reference, kind, enumeration, properties, req, discriminator, items, min_items, max_items, of) ==
    [ref |-> ref, reference |-> reference, kind |-> kind,
     enumeration |-> enumeration, properties |-> properties, required |-> req,
     discriminator |-> discriminator, items |-> items,
     min_items |-> min_items, max_items |-> max_items, of |-> of]

SRef(reference) == SchemaRec(TRUE, reference, "", <<>>, <<>>, {}, <<>>, <<>>, <<>>, <<>>, <<>>)
SItem(kind) == SchemaRec(FALSE, <<>>, kind, <<>>, <<>>, {}, <<>>, <<>>, <<>>, <<>>, <<>>)
SString == SItem("String")
SEnum(values) == [SItem("String") EXCEPT !.enumeration = values]
SNumber == SItem("Number")
SInteger == SItem("Integer")
SBoolean == SItem("Boolean")
SObject(properties, req) == [SItem("Object") EXCEPT !.properties = properties, !.required = req]
SDiscriminated(properties, req, disc) ==
    [SItem("Object") EXCEPT !.properties = properties, !.required = req,
                            !.discriminator = <<disc>>]
SArray(items, min_items, max_items) ==
    [SItem("Array") EXCEPT !.items = items, !.min_items = min_items, !.max_items = max_items]
SOneOf(of) == [SItem("OneOf") EXCEPT !.of = of]
SAllOf(of) == [SItem("AllOf") EXCEPT !.of = of]
SAnyOf(of) == [SItem("AnyOf") EXCEPT !.of = of]
SNot(of) == [SItem("Not") EXCEPT !.of = of]
SAny == SItem("Any")

Prop(name, schema) == [name |-> name, schema |-> schema]

\* oapi::Discriminator: property_name, mapping (tag -> target), extensions
Discriminator(property_name, mapping, extensions) ==
    [property_name |-> property_name, mapping |-> mapping, extensions |-> extensions]

MapEntry(tag, target) == [tag |-> tag, target |-> target]

\* Schema (lib.rs 93-116): the tracked struct.  schema_by_name is memoized,
\* so a component schema has one Schema, identified by its name; an inline
\* schema gets a Schema of its own each time.
Schema(named, name, schema) == [named |-> named, name |-> name, schema |-> schema]

from_oapi(schema) == Schema(FALSE, <<>>, schema)

\* results of the functions that intern types and may panic
Ok(st, ty) == [ok |-> TRUE, st |-> st, ty |-> ty, why |-> ""]
Panic(st, why_) == [ok |-> FALSE, st |-> st, ty |-> 0, why |-> why_]

(***************************************************************************)
(* schema_by_name (lib.rs 309-323).  Result: [ok, found, schema].          *)
(***************************************************************************)
Lookup(schemas, name) ==
    LET hits == {i \in 1..Len(schemas) : schemas[i].name = name}
    IN  IF hits = {} THEN <<>> ELSE <<schemas[CHOOSE i \in hits : TRUE].schema>>

RECURSIVE schema_by_name(_, _)
schema_by_name(api, name) ==
    LET stripped == strip_prefix(name)
    IN  IF stripped # <<>> THEN schema_by_name(api, stripped[1])
        ELSE IF api.components = <<>> THEN [ok |-> TRUE, found |-> FALSE, schema |-> <<>>]
        ELSE LET hit == Lookup(api.components[1].schemas, name)
             IN  IF hit = <<>> THEN [ok |-> TRUE, found |-> FALSE, schema |-> <<>>]
                 ELSE IF hit[1].ref THEN [ok |-> FALSE, found |-> FALSE, schema |-> <<>>]
                 ELSE [ok |-> TRUE, found |-> TRUE, schema |-> <<Schema(TRUE, name, hit[1])>>]

\* resolve_schema (lib.rs 141-152): [ok, schema, why]
resolve_schema(api, schema) ==
    IF schema.ref
    THEN LET r == schema_by_name(api, schema.reference)
         IN  IF ~r.ok THEN [ok |-> FALSE, schema |-> <<>>, why |-> "todo: reference to reference"]
             ELSE IF ~r.found THEN [ok |-> FALSE, schema |-> <<>>, why |-> "unwrap: schema_by_name is None"]
             ELSE [ok |-> TRUE, schema |-> r.schema, why |-> ""]
    ELSE [ok |-> TRUE, schema |-> <<from_oapi(schema)>>, why |-> ""]

(***************************************************************************)
(* schema_ty (lib.rs 325-432), shallow_schema_ty (lib.rs 160-181),         *)
(* resolve_schema_ty (lib.rs 153-159), ty_by_name (lib.rs 183-185).        *)
(* Result: Ok(st, ty) or Panic(st, why).  active is the set of component   *)
(* schemas whose schema_ty is being computed: salsa panics when a tracked  *)
(* function is entered again with a key it is still computing.             *)
(***************************************************************************)
RECURSIVE schema_ty(_, _, _, _)
RECURSIVE shallow_schema_ty(_, _, _, _)
RECURSIVE ShallowAll(_, _, _, _)
RECURSIVE ObjectProperties(_, _, _, _, _, _)
RECURSIVE DiscriminatorOptions(_, _, _, _, _)

\* a Vec<Type> being collected: [ok, st, tys, why]
NoTys(st) == [ok |-> TRUE, st |-> st, tys |-> <<>>, why |-> ""]
Failed(r) == [ok |-> FALSE, st |-> r.st, tys |-> <<>>, why |-> r.why]
Cons(ty, rest) == [rest EXCEPT !.tys = <<ty>> \o rest.tys]

\* Type::new of a kind
New(st, kind) == LET t == TypeNew(st, kind) IN Ok(t.st, t.ty)

\* Type::new(db, TypeKind::Or(..)) and And(..) of the collected members
OrOf(r) == IF ~r.ok THEN Panic(r.st, r.why) ELSE New(r.st, KOr(r.tys))
AndOf(r) == IF ~r.ok THEN Panic(r.st, r.why) ELSE New(r.st, KAnd(r.tys))

resolve_schema_ty(api, st, schema, active) ==
    LET r == resolve_schema(api, schema)
    IN  IF ~r.ok THEN Panic(st, r.why)
        ELSE schema_ty(api, st, r.schema[1], active)

\* every reference is inlined
ShallowInlinesAlways(name) == TRUE

\* no reference is inlined
ShallowInlinesNever(name) == FALSE

\* lib.rs 168: name.contains('_')
ShallowInlines(name) == contains_underscore(name)

shallow_schema_ty(api, st, schema, active) ==
    IF schema.ref
    THEN LET stripped == strip_prefix(schema.reference)
         IN  IF stripped # <<>>
             THEN IF ShallowInlines(stripped[1])
                  THEN resolve_schema_ty(api, st, schema, active)
                  ELSE New(st, KReference(stripped[1]))
             ELSE Panic(st, "todo: reference without #/components/schemas/")
    ELSE schema_ty(api, st, from_oapi(schema), active)

ty_by_name(api, st, name, active) == shallow_schema_ty(api, st, SRef(name), active)

\* .iter().map(|item| shallow_schema_ty(db, api, item)): [ok, st, tys, why]
ShallowAllRest(api, r, schemas, active) ==
    IF ~r.ok THEN Failed(r) ELSE Cons(r.ty, ShallowAll(api, r.st, schemas, active))

ShallowAll(api, st, schemas, active) ==
    IF schemas = <<>> THEN NoTys(st)
    ELSE ShallowAllRest(api, shallow_schema_ty(api, st, Head(schemas), active),
                        Tail(schemas), active)

\* lib.rs 349-359: [ok, st, fs, why]
ObjectProperty(api, r, obj, i, fs, active) ==
    IF ~r.ok THEN [ok |-> FALSE, st |-> r.st, fs |-> fs, why |-> r.why]
    ELSE ObjectProperties(api, r.st, obj, i + 1,
            [fs EXCEPT ![obj.properties[i].name] =
                Property(r.ty, ~(obj.properties[i].name \in obj.required))],
            active)

ObjectProperties(api, st, obj, i, fs, active) ==
    IF i > Len(obj.properties) THEN [ok |-> TRUE, st |-> st, fs |-> fs, why |-> ""]
    ELSE ObjectProperty(api, shallow_schema_ty(api, st, obj.properties[i].schema, active),
                        obj, i, fs, active)

\* lib.rs 370-390: one And([marker, ty]) per mapping entry: [ok, st, tys, why]
DiscriminatorOption(api, r, disc, i, active) ==
    IF ~r.ok THEN Failed(r)
    ELSE LET id == TypeNew(r.st, KIdent(disc.mapping[i].tag))
             marker == TypeNew(id.st,
                          KObject([NoFields EXCEPT ![disc.property_name] = required(id.ty)]))
             both == TypeNew(marker.st, KAnd(<<marker.ty, r.ty>>))
         IN  Cons(both.ty, DiscriminatorOptions(api, both.st, disc, i + 1, active))

DiscriminatorOptions(api, st, disc, i, active) ==
    IF i > Len(disc.mapping) THEN NoTys(st)
    ELSE DiscriminatorOption(api, ty_by_name(api, st, disc.mapping[i].target, active),
                             disc, i, active)

\* an enumeration that keeps its first value only
EnumIdentsFirst(st, enumeration) ==
    IF enumeration = <<>> THEN NoTys(st)
    ELSE IF Head(enumeration) = <<>>
         THEN [ok |-> FALSE, st |-> st, tys |-> <<>>, why |-> "unwrap: null enumeration value"]
         ELSE LET t == TypeNew(st, KIdent(Head(enumeration)[1]))
              IN  Cons(t.ty, NoTys(t.st))

\* lib.rs 336-339: the Ident of each enumeration value: [ok, st, tys, why]
RECURSIVE EnumIdents(_, _)
EnumIdents(st, enumeration) ==
    IF enumeration = <<>> THEN NoTys(st)
    ELSE IF Head(enumeration) = <<>>
         THEN [ok |-> FALSE, st |-> st, tys |-> <<>>, why |-> "unwrap: null enumeration value"]
         ELSE LET t == TypeNew(st, KIdent(Head(enumeration)[1]))
              IN  Cons(t.ty, EnumIdents(t.st, Tail(enumeration)))

\* lib.rs 361-396: the discriminator, after the properties
ObjectOrUnion(api, ps, obj, active) ==
    IF ~ps.ok THEN Panic(ps.st, ps.why)
    ELSE IF obj.discriminator = <<>> THEN New(ps.st, KObject(ps.fs))
    ELSE IF obj.discriminator[1].extensions # 0
         THEN Panic(ps.st, "assert: discriminator extensions")
    ELSE IF Len(obj.discriminator[1].mapping) < 2
         THEN Panic(ps.st, "todo: discriminator mapping")
    ELSE OrOf(DiscriminatorOptions(api, ps.st, obj.discriminator[1], 1, active))

\* lib.rs 346-397
SchemaTyObject(api, st, obj, active) ==
    ObjectOrUnion(api, ObjectProperties(api, st, obj, 1, NoFields, active), obj, active)

\* lib.rs 400-406: the bounds, after the items
ArrayOf(r, arr) ==
    IF ~r.ok THEN r
    ELSE IF arr.min_items # <<>> /\ arr.max_items # <<>> /\ arr.min_items = arr.max_items
    THEN New(r.st, KTuple([j \in 1..arr.min_items[1] |-> r.ty]))
    ELSE IF arr.min_items = <<>> /\ arr.max_items = <<>>
    THEN New(r.st, KArray(r.ty))
    ELSE Panic(r.st, "todo: array bounds")

\* lib.rs 398-407
SchemaTyArray(api, st, arr, active) ==
    IF arr.items = <<>> THEN Panic(st, "unwrap: array without items")
    ELSE ArrayOf(shallow_schema_ty(api, st, arr.items[1], active), arr)

SchemaTyKind(api, st, s, active) ==
    CASE s.kind = "String" ->
           IF s.enumeration = <<>> THEN New(st, KString)
           ELSE OrOf(EnumIdents(st, s.enumeration))
      [] s.kind \in {"Number", "Integer"} -> New(st, KNumber)
      [] s.kind = "Object" -> SchemaTyObject(api, st, s, active)
      [] s.kind = "Array" -> SchemaTyArray(api, st, s, active)
      [] s.kind = "Boolean" -> New(st, KBoolean)
      [] s.kind = "OneOf" -> OrOf(ShallowAll(api, st, s.of, active))
      [] s.kind = "AllOf" -> AndOf(ShallowAll(api, st, s.of, active))
      [] s.kind = "AnyOf" -> Panic(st, "todo: anyOf")
      [] s.kind = "Not" -> Panic(st, "todo: not")
      [] OTHER -> Panic(st, "todo: any")

schema_ty(api, st, schema, active) ==
    IF schema.named /\ schema.name \in active
    THEN Panic(st, "salsa: cycle detected in schema_ty")
    ELSE SchemaTyKind(api, st, schema.schema,
                      IF schema.named THEN active \cup {schema.name} ELSE active)

(***************************************************************************)
(* Type::ts (ts.rs 113-147): the emitted text of a Type, as the sequence   *)
(* of its tokens (names and literals character by character).              *)
(***************************************************************************)
RECURSIVE Join(_, _)
Join(parts, sep) ==
    IF parts = <<>> THEN <<>>
    ELSE IF Len(parts) = 1 THEN parts[1]
    ELSE parts[1] \o sep \o Join(Tail(parts), sep)

RECURSIVE ts(_, _)
RECURSIVE TsFields(_, _, _)

TsFields(st, fs, i) ==
    IF i > Len(FieldOrder) THEN <<>>
    ELSE LET f == FieldOrder[i]
         IN  IF ~fs[f].present THEN TsFields(st, fs, i + 1)
             ELSE <<<<f>> \o (IF fs[f].optional THEN <<"?">> ELSE <<>>)
                     \o <<": ">> \o ts(st, fs[f].ty) \o <<";">>>>
                  \o TsFields(st, fs, i + 1)

ts(st, ty) ==
    LET kd == st[ty]
    IN  CASE kd.k = "Reference" -> kd.s
          [] kd.k = "Object" ->
               IF \A f \in FieldNames : ~kd.fs[f].present THEN <<"{}">>
               ELSE <<"{">> \o Join(TsFields(st, kd.fs, 1), <<"\n">>) \o <<"}">>
          [] kd.k = "Array" -> ts(st, kd.ts[1]) \o <<"[]">>
          [] kd.k = "Tuple" ->
               <<"[">> \o Join([j \in 1..Len(kd.ts) |-> ts(st, kd.ts[j])], <<", ">>) \o <<"]">>
          [] kd.k = "Or" -> Join([j \in 1..Len(kd.ts) |-> ts(st, kd.ts[j])], <<" | ">>)
          [] kd.k = "And" -> Join([j \in 1..Len(kd.ts) |-> ts(st, kd.ts[j])], <<" & ">>)
          [] kd.k = "Number" -> <<"number">>
          [] kd.k = "String" -> <<"string">>
          [] kd.k = "Boolean" -> <<"boolean">>
          [] OTHER -> <<"\"">> \o kd.s \o <<"\"">>

(***************************************************************************)
(* Type::constants (lib.rs 119-138): <<values>> for Some, <<>> for None.   *)
(***************************************************************************)
constants(st, ty) ==
    IF st[ty].k = "Or" /\ \A j \in 1..Len(st[ty].ts) : st[st[ty].ts[j]].k = "Ident"
    THEN <<[j \in 1..Len(st[ty].ts) |-> st[st[ty].ts[j]].s]>>
    ELSE <<>>

(***************************************************************************)
(* The operations of the document.                                         *)
(*   Parameter:  [ref, loc, name, content, schema]                         *)
(*   RequestBody, Response: [ref, content], content the IndexMap of        *)
(*                          [media_type, schema (Option)]                  *)
(*   Operation:  [parameters, request_body (Option), responses]            *)
(***************************************************************************)
Parameter(loc, name, schema) ==
    [ref |-> FALSE, loc |-> loc, name |-> name, content |-> FALSE, schema |-> schema]
ParameterRef == [Parameter("Query", "a", SString) EXCEPT !.ref = TRUE]
ParameterContent(loc, name) == [Parameter(loc, name, SString) EXCEPT !.content = TRUE]

Media(media_type, schema) == [media_type |-> media_type, schema |-> schema]
Content(content) == [ref |-> FALSE, content |-> content]
ContentRef == [ref |-> TRUE, content |-> <<>>]

OapiOperation(parameters, request_body, responses) ==
    [parameters |-> parameters, request_body |-> request_body, responses |-> responses]

StatusResponse(status, response) == [status |-> status, response |-> response]

\* simplify_ty(db, ty)
Simplified(r) ==
    IF ~r.ok THEN r ELSE LET t == simplify_ty(r.st, r.ty) IN Ok(t.st, t.ty)

\* simplify_ty(db, shallow_schema_ty(db, api, schema))  (lib.rs 233, 271, 280)
SimplifiedShallow(api, st, schema) == Simplified(shallow_schema_ty(api, st, schema, {}))

\* lib.rs 196-224: [ok, st, path_params, query, why]
RECURSIVE OperationParameters(_, _, _, _, _)

OperationParameter(api, r, params, path_params, query) ==
    IF ~r.ok
    THEN [ok |-> FALSE, st |-> r.st, path_params |-> path_params, query |-> query, why |-> r.why]
    ELSE IF Head(params).loc = "Query"
    THEN OperationParameters(api, r.st, Tail(params), path_params,
            [query EXCEPT ![Head(params).name] = Property(r.ty, FALSE)])
    ELSE OperationParameters(api, r.st, Tail(params),
            [path_params EXCEPT ![Head(params).name] = Property(r.ty, FALSE)], query)

OperationParameters(api, st, params, path_params, query) ==
    IF params = <<>>
    THEN [ok |-> TRUE, st |-> st, path_params |-> path_params, query |-> query, why |-> ""]
    ELSE LET p == Head(params)
             bad(w) == [ok |-> FALSE, st |-> st, path_params |-> path_params,
                        query |-> query, why |-> w]
         IN  IF p.ref THEN bad("todo: parameter reference")
             ELSE IF p.loc = "Header" THEN bad("todo: header parameter")
             ELSE IF p.loc = "Cookie" THEN bad("todo: cookie parameter")
             ELSE IF p.content THEN bad("todo: parameter content")
             ELSE OperationParameter(api, shallow_schema_ty(api, st, p.schema, {}),
                                     params, path_params, query)

\* lib.rs 240-243: the media type of the request
RequestKindOf(r, media_type) ==
    IF ~r.ok THEN [ok |-> FALSE, st |-> r.st, body |-> <<>>, why |-> r.why]
    ELSE IF media_type = "application/json"
    THEN [ok |-> TRUE, st |-> r.st, body |-> <<[kind |-> "Json", ty |-> r.ty]>>, why |-> ""]
    ELSE [ok |-> FALSE, st |-> r.st, body |-> <<>>, why |-> "todo: unhandled request media type"]

\* lib.rs 225-248: [ok, st, body (Option<RequestKind>), why]
OperationBody(api, st, request_body) ==
    LET res(ok_, body_, w) == [ok |-> ok_, st |-> st, body |-> body_, why |-> w]
    IN  IF request_body = <<>> THEN res(TRUE, <<>>, "")
        ELSE IF request_body[1].ref THEN res(FALSE, <<>>, "todo: request body reference")
        ELSE IF Len(request_body[1].content) # 1
        THEN res(FALSE, <<>>, "assert: request content.len() == 1")
        ELSE IF request_body[1].content[1].schema = <<>>
        THEN res(FALSE, <<>>, "todo: request without schema")
        ELSE RequestKindOf(SimplifiedShallow(api, st, request_body[1].content[1].schema[1]),
                           request_body[1].content[1].media_type)

\* lib.rs 269-274: every media type's schema of a response is resolved and
\* simplified for the debug log: [ok, st, why]
RECURSIVE ResponseDebug(_, _, _)

ResponseDebugRest(api, r, content) ==
    IF ~r.ok THEN [ok |-> FALSE, st |-> r.st, why |-> r.why]
    ELSE ResponseDebug(api, r.st, content)

ResponseDebug(api, st, content) ==
    IF content = <<>> THEN [ok |-> TRUE, st |-> st, why |-> ""]
    ELSE IF Head(content).schema = <<>> THEN ResponseDebug(api, st, Tail(content))
    ELSE ResponseDebugRest(api, SimplifiedShallow(api, st, Head(content).schema[1]),
                           Tail(content))

\* lib.rs 287-295: the media type of the response
ResponseKindOf(r, media_type) ==
    LET out(ok_, st_, response_, w) ==
            [ok |-> ok_, st |-> st_, response |-> response_, why |-> w]
        str == TypeNew(r.st, KString)
    IN  IF ~r.ok THEN out(FALSE, r.st, <<>>, r.why)
        ELSE CASE media_type = "text/plain" ->
                    IF r.ty = str.ty
                    THEN out(TRUE, str.st, <<[kind |-> "Plain", ty |-> 0]>>, "")
                    ELSE out(FALSE, str.st, <<>>, "assert: text/plain is String")
               [] media_type = "application/json" ->
                    out(TRUE, r.st, <<[kind |-> "Json", ty |-> r.ty]>>, "")
               [] media_type = "text/event-stream" ->
                    out(TRUE, r.st, <<[kind |-> "EventStream", ty |-> r.ty]>>, "")
               [] OTHER -> out(FALSE, r.st, <<>>, "todo: unhandled response media type")

\* lib.rs 276-286: the one media type of the response, after the debug log
ResponseOf(api, d, res) ==
    LET out(w) == [ok |-> FALSE, st |-> d.st, response |-> <<>>, why |-> w]
    IN  IF ~d.ok THEN out(d.why)
        ELSE IF Len(res.content) # 1 THEN out("assert: response content.len() == 1")
        ELSE IF res.content[1].schema = <<>> THEN out("todo: response without schema")
        ELSE ResponseKindOf(SimplifiedShallow(api, d.st, res.content[1].schema[1]),
                            res.content[1].media_type)

\* lib.rs 266-297: one entry of the response map: [ok, st, response, why]
OperationResponse(api, st, res) ==
    IF res.ref
    THEN [ok |-> FALSE, st |-> st, response |-> <<>>, why |-> "todo: response reference"]
    ELSE ResponseOf(api, ResponseDebug(api, st, res.content), res)

\* a loop that stops after the first entry of the map
OperationResponsesFirst(api, st, responses, response) ==
    IF responses = <<>> THEN [ok |-> TRUE, st |-> st, response |-> response, why |-> ""]
    ELSE OperationResponse(api, st, Head(responses).response)

\* lib.rs 263-298: the entries in the order of the map; the last one stays
RECURSIVE OperationResponses(_, _, _, _)

OperationResponsesRest(api, r, responses) ==
    IF ~r.ok THEN r ELSE OperationResponses(api, r.st, responses, r.response)

OperationResponses(api, st, responses, response) ==
    IF responses = <<>> THEN [ok |-> TRUE, st |-> st, response |-> response, why |-> ""]
    ELSE OperationResponsesRest(api, OperationResponse(api, st, Head(responses).response),
                                Tail(responses))

\* operation (lib.rs 187-307): [ok, st, op, why]
NoOperation(path) ==
    [path |-> path, query |-> NoFields, path_params |-> NoFields,
     body |-> <<>>, response |-> <<>>]

WithResponses(ps, b, rs, path) ==
    IF ~rs.ok THEN [ok |-> FALSE, st |-> rs.st, op |-> NoOperation(path), why |-> rs.why]
    ELSE [ok |-> TRUE, st |-> rs.st,
          op |-> [path |-> path, query |-> ps.query, path_params |-> ps.path_params,
                  body |-> b.body, response |-> rs.response],
          why |-> ""]

WithBody(api, ps, b, path, op) ==
    IF ~b.ok THEN [ok |-> FALSE, st |-> b.st, op |-> NoOperation(path), why |-> b.why]
    ELSE WithResponses(ps, b, OperationResponses(api, b.st, op.responses, <<>>), path)

WithParameters(api, ps, path, op) ==
    IF ~ps.ok THEN [ok |-> FALSE, st |-> ps.st, op |-> NoOperation(path), why |-> ps.why]
    ELSE WithBody(api, ps, OperationBody(api, ps.st, op.request_body), path, op)

operation(api, st, path, op) ==
    WithParameters(api, OperationParameters(api, st, op.parameters, NoFields, NoFields),
                   path, op)

(***************************************************************************)
(* Operation::ts (ts.rs 149-244).  A path is the sequence of its           *)
(* components and a component the sequence of its words ("tick" is the     *)
(* delimiter of a template literal).   The operation                     *)
(* name, components().join("_").to_lower_camel_case(), is determined by    *)
(* the words of the path in order.  Result: [ok, st, name, fn_impl, why].  *)
(***************************************************************************)
RECURSIVE Flatten(_)
Flatten(ss) == IF ss = <<>> THEN <<>> ELSE Head(ss) \o Flatten(Tail(ss))

\* Utf8Path::strip_prefix: <<rest>> or <<>> for Err
PathStripPrefix(path, prefix) ==
    IF Len(prefix) <= Len(path) /\ SubSeq(path, 1, Len(prefix)) = prefix
    THEN <<SubSeq(path, Len(prefix) + 1, Len(path))>>
    ELSE <<>>

\* the text of a path: its components joined by "/"
PathText(path) == Join([i \in 1..Len(path) |-> Join([j \in 1..Len(path[i]) |-> <<path[i][j]>>], <<"_">>)], <<"/">>)

\* typify_map (ts.rs 160-181): <<>> for None, else the interned Object
typify_map(st, map) ==
    IF \A f \in FieldNames : ~map[f].present THEN [st |-> st, ty |-> <<>>]
    ELSE LET t == TypeNew(st, KObject(map)) IN [st |-> t.st, ty |-> <<t.ty>>]

ApiOptions == <<"ApiOptions">>

operation_ts(api, st, op, method) ==
    LET stripped == IF api.api_prefix = <<>> THEN <<op.path>>
                    ELSE PathStripPrefix(op.path, api.api_prefix[1])
        path == stripped[1]
        name == Flatten(path)
        params == typify_map(st, op.path_params)
        query == typify_map(params.st, op.query)
        json_body == IF op.body = <<>> THEN <<>> ELSE <<op.body[1].ty>>
        options == TypeNew(query.st, KReference(ApiOptions))
        st2 == options.st
        prop(n, ty) == IF ty = <<>> THEN <<>> ELSE <<<<n, ": ">> \o ts(st2, ty[1])>>
        props == prop("params", params.ty) \o prop("query", query.ty)
                 \o prop("body", json_body) \o prop("options?", <<options.ty>>)
        url == IF params.ty # <<>>
               THEN <<"tick">> \o PathText(path) \o <<"?$", "{new URLSearchParams(params)}", "tick">>
               ELSE IF query.ty # <<>>
               THEN <<"tick">> \o PathText(path) \o <<"?$", "{new URLSearchParams(query)}", "tick">>
               ELSE <<"tick">> \o PathText(path) \o <<"tick">>
        args == <<"\"", method, "\"", ", ">> \o url
                \o (IF json_body # <<>> THEN <<", ", "body">> ELSE <<>>)
                \o <<", ", "options">>
        res == op.response[1]
        request_impl ==
            CASE res.kind = "Plain" -> <<"requestPlain(">> \o args \o <<")">>
              [] res.kind = "Json" ->
                   <<"requestJson<">> \o ts(st2, res.ty) \o <<">(">> \o args \o <<")">>
              [] OTHER -> <<"sse<">> \o ts(st2, res.ty) \o <<">(">> \o args \o <<")">>
        bad(st_, w) == [ok |-> FALSE, st |-> st_, name |-> <<>>, fn_impl |-> <<>>, why |-> w]
    IN  IF stripped = <<>> THEN bad(st, "unwrap: path without the api prefix")
        ELSE IF op.response = <<>> THEN bad(st2, "todo: operation without response")
        ELSE [ok |-> TRUE, st |-> st2, name |-> name,
              fn_impl |-> <<"(">> \o Join(props, <<", ">>) \o <<") => ">> \o request_impl,
              why |-> ""]

(***************************************************************************)
(* generate_ts (ts.rs 14-111), one path item (ts.rs 27-54).                *)
(* PathItem: [ref, path, parameters, ops], ops the Option<Operation> of    *)
(* each method.                                                            *)
(***************************************************************************)
\* ts.rs 41-49: the methods in the order of the array
Methods == <<"DELETE", "GET", "PUT", "POST", "HEAD", "TRACE", "PATCH">>

NoOps == [m \in {Methods[i] : i \in 1..Len(Methods)} |-> <<>>]

PathItem(path, ops) == [ref |-> FALSE, path |-> path, parameters |-> 0, ops |-> ops]

\* ts.rs 37-49: operation() of every method that is present: [ok, st, ops, why]
RECURSIVE GenOps(_, _, _, _)

ConsOp(o, rest) == [rest EXCEPT !.ops = <<o>> \o rest.ops]

GenOpsRest(api, r, item, i) ==
    IF ~r.ok THEN [ok |-> FALSE, st |-> r.st, ops |-> <<>>, why |-> r.why]
    ELSE ConsOp([method |-> Methods[i], op |-> r.op], GenOps(api, r.st, item, i + 1))

GenOps(api, st, item, i) ==
    IF i > Len(Methods) THEN [ok |-> TRUE, st |-> st, ops |-> <<>>, why |-> ""]
    ELSE IF item.ops[Methods[i]] = <<>> THEN GenOps(api, st, item, i + 1)
    ELSE GenOpsRest(api, operation(api, st, item.path, item.ops[Methods[i]][1]), item, i)

\* ts.rs 50-52: .map(|(method, op)| op.ts(db, api, method)): [ok, st, out, why]
RECURSIVE OpsTs(_, _, _)

ConsOut(o, rest) == [rest EXCEPT !.out = <<o>> \o rest.out]

OpsTsRest(api, r, ops) ==
    IF ~r.ok THEN [ok |-> FALSE, st |-> r.st, out |-> <<>>, why |-> r.why]
    ELSE ConsOut([name |-> r.name, fn_impl |-> r.fn_impl,
                  method |-> Head(ops).method, op |-> Head(ops).op],
                 OpsTs(api, r.st, Tail(ops)))

OpsTs(api, st, ops) ==
    IF ops = <<>> THEN [ok |-> TRUE, st |-> st, out |-> <<>>, why |-> ""]
    ELSE OpsTsRest(api, operation_ts(api, st, Head(ops).op, Head(ops).method), ops)

PathItemTs(api, g) ==
    IF ~g.ok THEN [ok |-> FALSE, st |-> g.st, out |-> <<>>, why |-> g.why]
    ELSE OpsTs(api, g.st, g.ops)

\* ts.rs 27-53: [ok, st, out, why]
GenPathItemOps(api, st, item) ==
    IF item.ref THEN [ok |-> FALSE, st |-> st, out |-> <<>>, why |-> "todo: path item reference"]
    ELSE IF item.parameters # 0
    THEN [ok |-> FALSE, st |-> st, out |-> <<>>, why |-> "todo: path item parameters"]
    ELSE PathItemTs(api, GenOps(api, st, item, 1))

\* ts.rs 85-87: simplify_ty(db, schema_ty(db, api, schema)), kept with the name
Declared(name, r) ==
    IF ~r.ok THEN [ok |-> FALSE, st |-> r.st, out |-> <<>>, why |-> r.why]
    ELSE LET t == simplify_ty(r.st, r.ty)
         IN  [ok |-> TRUE, st |-> t.st,
              out |-> <<[name |-> name, ty |-> t.ty, resolved |-> r.ty]>>,
              why |-> ""]

\* ts.rs 71-91, one schema key: [ok, st, out, why], out the (name, ty) kept
GenTypeOf(api, st, name) ==
    IF contains_underscore(name) THEN [ok |-> TRUE, st |-> st, out |-> <<>>, why |-> ""]
    ELSE LET s == schema_by_name(api, name)
         IN  IF ~s.ok THEN [ok |-> FALSE, st |-> st, out |-> <<>>, why |-> "todo: reference to reference"]
             ELSE IF ~s.found THEN [ok |-> TRUE, st |-> st, out |-> <<>>, why |-> ""]
             ELSE Declared(name, schema_ty(api, st, s.schema[1], {}))

\* ts.rs 57-66: the operation map
ApiText(ops) ==
    <<"export const api = {">>
    \o Flatten([i \in 1..Len(ops) |-> ops[i].name \o <<": ">> \o ops[i].fn_impl \o <<",">>])
    \o <<"};">>

\* ts.rs 93-106: the declaration of one type, and its constants
TypeText(st, t) ==
    <<"export type ">> \o t.name \o <<" = ">> \o ts(st, t.ty) \o <<";">>
    \o (IF constants(st, t.ty) = <<>> THEN <<>>
        ELSE <<"export const ", "shouty_snake(pluralize(">> \o t.name \o <<"))", " = [">>
             \o Join([j \in 1..Len(constants(st, t.ty)[1]) |->
                        <<"\"">> \o constants(st, t.ty)[1][j] \o <<"\"">>], <<", ">>)
             \o <<"] satisfies ">> \o t.name \o <<"[];">>)

(***************************************************************************)
(* The memo tables of the tracked functions (#[salsa::tracked], lib.rs     *)
(* 309, 325, 434).  A memo table does not change the value a function      *)
(* returns; it decides whether the body runs.  The tables are the record   *)
(*   by_name:   the keys of schema_by_name with the Schema they returned   *)
(*              (id 0 for None),                                           *)
(*   made:      the named Schemas in the order Schema::new made them, each *)
(*              with the name of its component (the index is the id),      *)
(*   asked:     the keys schema_by_name was called with from outside,      *)
(*   ty_runs:   how often the body of schema_ty ran for each named Schema, *)
(*   simp_runs: how often the body of simplify_ty ran for each Type.       *)
(* The operators below follow the calls of a handler that has returned,    *)
(* with the store it has left: interning again returns the same ids.       *)
(***************************************************************************)
NoMemo == [by_name |-> {}, made |-> <<>>, asked |-> <<>>, ty_runs |-> <<>>, simp_runs |-> <<>>]

\* a function that is not tracked: its body runs at every call
NeverHit(m, key) == FALSE

\* lib.rs 309: schema_by_name is tracked, its key the name as it was passed
ByNameHit(m, key) == \E e \in m.by_name : e.key = key

ByNameGet(m, key) == (CHOOSE e \in m.by_name : e.key = key).id

\* lib.rs 325: schema_ty is tracked, its key the Schema
TyHit(m, id) == m.ty_runs[id] > 0

SimpRuns(m, ty) == IF ty <= Len(m.simp_runs) THEN m.simp_runs[ty] ELSE 0

\* lib.rs 434: simplify_ty is tracked, its key the interned Type
SimplifyHit(m, ty) == SimpRuns(m, ty) > 0

\* schema_by_name (lib.rs 309-323) with its table: [m, id]
RECURSIVE MemoSchemaByName(_, _, _)

MemoByNameStore(r, key) ==
    [m |-> [r.m EXCEPT !.by_name = @ \cup {[key |-> key, id |-> r.id]}], id |-> r.id]

MemoSchemaByName(api, m, key) ==
    IF ByNameHit(m, key) THEN [m |-> m, id |-> ByNameGet(m, key)]
    ELSE IF strip_prefix(key) # <<>>
    THEN MemoByNameStore(MemoSchemaByName(api, m, strip_prefix(key)[1]), key)
    ELSE IF \/ api.components = <<>>
            \/ Lookup(api.components[1].schemas, key) = <<>>
            \/ Lookup(api.components[1].schemas, key)[1].ref
    THEN MemoByNameStore([m |-> m, id |-> 0], key)
    ELSE MemoByNameStore([m |-> [m EXCEPT !.made = Append(@, key), !.ty_runs = Append(@, 0)],
                          id |-> Len(m.made) + 1], key)

\* a call of schema_by_name from resolve_schema (lib.rs 148) or generate_ts
\* (ts.rs 85)
MemoAsk(api, m, key) == MemoSchemaByName(api, [m EXCEPT !.asked = Append(@, key)], key)

\* schema_ty (lib.rs 325-432): the calls its body makes, in their order
RECURSIVE MemoSchemaTy(_, _, _, _)
RECURSIVE MemoShallowAll(_, _, _, _)

\* the targets of the discriminator mapping, as ty_by_name passes them on
MemoTargets(s) ==
    IF s.discriminator = <<>> THEN <<>>
    ELSE [j \in 1..Len(s.discriminator[1].mapping) |-> SRef(s.discriminator[1].mapping[j].target)]

\* schema_ty of the named Schema r.id, after schema_by_name returned r
MemoNamed(api, r, active) ==
    IF r.id = 0 THEN r.m
    ELSE IF TyHit(r.m, r.id) \/ r.m.made[r.id] \in active THEN r.m
    ELSE MemoSchemaTy(api, [r.m EXCEPT !.ty_runs[r.id] = @ + 1],
                      Lookup(api.components[1].schemas, r.m.made[r.id])[1],
                      active \cup {r.m.made[r.id]})

MemoSchemaTy(api, m, s, active) ==
    CASE s.kind = "Object" ->
           MemoShallowAll(api, m, [q \in 1..Len(s.properties) |-> s.properties[q].schema]
                                  \o MemoTargets(s), active)
      [] s.kind = "Array" -> MemoShallowAll(api, m, s.items, active)
      [] s.kind \in {"OneOf", "AllOf"} -> MemoShallowAll(api, m, s.of, active)
      [] OTHER -> m

\* shallow_schema_ty (lib.rs 160-181)
MemoShallow(api, m, schema, active) ==
    IF ~schema.ref THEN MemoSchemaTy(api, m, schema, active)
    ELSE IF strip_prefix(schema.reference) = <<>> THEN m
    ELSE IF ShallowInlines(strip_prefix(schema.reference)[1])
    THEN MemoNamed(api, MemoAsk(api, m, schema.reference), active)
    ELSE m

MemoShallowAll(api, m, schemas, active) ==
    IF schemas = <<>> THEN m
    ELSE MemoShallowAll(api, MemoShallow(api, m, Head(schemas), active), Tail(schemas), active)

\* simplify_ty (lib.rs 434-509): the types its body calls simplify_ty on
Children(st, ty) ==
    IF st[ty].k = "Object"
    THEN LET fs == SelectSeq(FieldOrder, LAMBDA f : st[ty].fs[f].present)
         IN  [i \in 1..Len(fs) |-> st[ty].fs[fs[i]].ty]
    ELSE st[ty].ts

MemoSimplified(m, ty) ==
    [m EXCEPT !.simp_runs =
        [i \in 1..(IF ty > Len(@) THEN ty ELSE Len(@)) |->
            IF i = ty THEN SimpRuns(m, i) + 1 ELSE SimpRuns(m, i)]]

RECURSIVE MemoSimplify(_, _, _)
RECURSIVE MemoSimplifyAll(_, _, _)
MemoSimplify(st, m, ty) ==
    IF SimplifyHit(m, ty) THEN m
    ELSE MemoSimplifyAll(st, MemoSimplified(m, ty), Children(st, ty))

MemoSimplifyAll(st, m, tys) ==
    IF tys = <<>> THEN m
    ELSE MemoSimplifyAll(st, MemoSimplify(st, m, Head(tys)), Tail(tys))

\* simplify_ty(db, shallow_schema_ty(db, api, schema)) of each schema in turn
RECURSIVE MemoSimplifiedShallow(_, _, _, _)
MemoSimplifiedShallow(api, st, m, schemas) ==
    IF schemas = <<>> THEN m
    ELSE MemoSimplifiedShallow(api, st,
            MemoSimplify(st, MemoShallow(api, m, Head(schemas), {}),
                         shallow_schema_ty(api, st, Head(schemas), {}).ty),
            Tail(schemas))

\* operation (lib.rs 187-307) that returned: the parameters are resolved;
\* the body and, twice, the one schema of each response are resolved and
\* simplified
MemoOperation(api, st, m, op) ==
    MemoSimplifiedShallow(api, st,
        MemoShallowAll(api, m, [j \in 1..Len(op.parameters) |-> op.parameters[j].schema], {}),
        (IF op.request_body = <<>> THEN <<>> ELSE op.request_body[1].content[1].schema)
        \o Flatten([j \in 1..Len(op.responses) |->
                      op.responses[j].response.content[1].schema
                      \o op.responses[j].response.content[1].schema]))

\* ts.rs 37-49: the operations of a path item
RECURSIVE MemoPathItem(_, _, _, _, _)
MemoPathItem(api, st, m, item, i) ==
    IF i > Len(Methods) THEN m
    ELSE IF item.ops[Methods[i]] = <<>> THEN MemoPathItem(api, st, m, item, i + 1)
    ELSE MemoPathItem(api, st, MemoOperation(api, st, m, item.ops[Methods[i]][1]), item, i + 1)

\* ts.rs 79-90: one schema key; out is what GenTypeOf kept
MemoType(api, st, m, name, out) ==
    IF contains_underscore(name) THEN m
    ELSE IF out = <<>> THEN MemoNamed(api, MemoAsk(api, m, name), {})
    ELSE MemoSimplify(st, MemoNamed(api, MemoAsk(api, m, name), {}), out[1].resolved)

(***************************************************************************)
(* The documents the model runs on.  InputApi (lib.rs 33-38) is the record *)
(* [paths, components, api_prefix].                                        *)
(***************************************************************************)
InputApi(paths, schemas) ==
    [paths |-> paths, components |-> <<[schemas |-> schemas]>>, api_prefix |-> <<>>]

Named(name, schema) == [name |-> name, schema |-> schema]

Foo == <<"F", "o", "o">>
Bar == <<"B", "a", "r">>
Foo_x == <<"F", "o", "o", "_", "x">>
Bar_x == <<"B", "a", "r", "_", "x">>
Gone == <<"G", "o", "n", "e">>
Gone_x == <<"G", "o", "n", "e", "_", "x">>
Dee == <<"D", "e", "e">>
Eff == <<"E", "f", "f">>

\* the name of the i-th schema of a document of shapes
TName(i) == <<"T", CHOOSE c \in {"1", "2", "3", "4", "5"} :
                     c = <<"1", "2", "3", "4", "5">>[i]>>

\* Shapes: inline schemas, nested up to three levels.
Leaves == {SString, SNumber}

ObjA == SObject(<<Prop("a", SString)>>, {"a"})
ObjBA == SObject(<<Prop("b", SNumber), Prop("a", SOneOf(<<SString, SNumber>>))>>, {"b"})

MemberShapes ==
    {SString, SNumber, SEnum(<<<<<<"x">>>>>>), ObjA, ObjBA,
     SOneOf(<<SNumber, SString>>),
     SAllOf(<<ObjA, SObject(<<Prop("b", SNumber)>>, {})>>)}

\* the members of the sequences: the shapes that are not members already
SeqShapes == MemberShapes \ {SEnum(<<<<<<"x">>>>>>), ObjA}

MemberSeqs == UNION {[1..n -> SeqShapes] : n \in 1..MaxMembers}

Shapes ==
    MemberShapes
    \cup {SOneOf(ms) : ms \in MemberSeqs}
    \cup {SAllOf(ms) : ms \in MemberSeqs}
    \cup {SArray(<<m>>, <<2>>, <<2>>) : m \in MemberShapes}
    \cup {SArray(<<m>>, <<>>, <<>>) : m \in MemberShapes}

\* a document of shapes: leaf schemas first (they fix the order in which the
\* primitive types are interned), then one shape
RECURSIVE NameAll(_, _)
NameAll(schemas, i) ==
    IF i > Len(schemas) THEN <<>>
    ELSE <<Named(TName(i), schemas[i])>> \o NameAll(schemas, i + 1)

ShapeDocs ==
    {InputApi(<<>>, NameAll(pre \o <<s>>, 1)) :
        pre \in UNION {[1..n -> Leaves] : n \in 0..(MaxSchemas - 1)}, s \in Shapes}

\* Documents with a discriminator (DiscDocs).  The targets of the mapping are
\* written as schema names or as references, with or without an underscore;
\* Dee maps a -> n1, b -> n2 and Eff, when present, maps a -> n2, b -> n1.
ObjB == SObject(<<Prop("b", SNumber)>>, {"b"})
ObjKindB == SObject(<<Prop("kind", SString), Prop("b", SNumber)>>, {"kind", "b"})
ObjKindNumber == SObject(<<Prop("kind", SNumber)>>, {"kind"})

TargetForm(form, name) == IF form = "name" THEN name ELSE Prefixed(name)

DiscSchema(form, n1, n2) ==
    SDiscriminated(<<Prop("a", SString)>>, {"a"},
        Discriminator("kind",
            <<MapEntry(<<"a">>, TargetForm(form, n1)), MapEntry(<<"b">>, TargetForm(form, n2))>>,
            0))

DiscDocs ==
    {InputApi(<<>>,
        LET discs == <<Named(Dee, DiscSchema(form, ns[1], ns[2]))>>
                     \o (IF two THEN <<Named(Eff, DiscSchema(form, ns[2], ns[1]))>> ELSE <<>>)
            targets == <<Named(ns[1], s1), Named(ns[2], s2)>>
        IN  IF first THEN discs \o targets ELSE targets \o discs) :
        form \in {"name", "reference"},
        ns \in {<<Foo, Bar>>, <<Foo_x, Bar_x>>, <<Foo, Bar_x>>},
        s1 \in {ObjKindB, ObjB, ObjKindNumber}, s2 \in {ObjKindB, ObjA},
        first \in BOOLEAN, two \in BOOLEAN}

\* Documents with references between component schemas (RefDocs): Dee uses
\* the reference r; Foo, Foo_x and Bar_x are plain or refer to each other or
\* to themselves.
UserShapes(r) ==
    {SObject(<<Prop("a", SRef(r))>>, {"a"}),
     SArray(<<SRef(r)>>, <<>>, <<>>),
     SOneOf(<<SRef(r), SString>>),
     SAllOf(<<SRef(r), ObjB>>)}

RefTargets ==
    {Prefixed(Foo), Prefixed(Foo_x), Prefixed(Gone), Prefixed(Gone_x), Prefixed(Dee), Foo}

RefDocs ==
    {InputApi(<<>>, <<Named(Dee, user), Named(Foo, foo), Named(Foo_x, foox), Named(Bar_x, barx)>>) :
        user \in UNION {UserShapes(r) : r \in RefTargets},
        foo \in {ObjKindB, SObject(<<Prop("a", SRef(Prefixed(Foo)))>>, {}),
                 SArray(<<SRef(Prefixed(Dee))>>, <<>>, <<>>)},
        foox \in {ObjB, SObject(<<Prop("a", SRef(Prefixed(Foo_x)))>>, {}),
                  SObject(<<Prop("a", SRef(Prefixed(Bar_x)))>>, {}),
                  SObject(<<Prop("a", SRef(Prefixed(Foo)))>>, {"a"})},
        barx \in {ObjB, SOneOf(<<SString, SRef(Prefixed(Foo_x))>>)}}

\* Documents with one path item (OpDocs).
ParameterLists ==
    {<<>>,
     <<Parameter("Query", "a", SString)>>,
     <<Parameter("Path", "a", SRef(Prefixed(Foo))),
       Parameter("Query", "b", SOneOf(<<SNumber, SString>>))>>,
     <<Parameter("Path", "a", SNumber),
       Parameter("Query", "b", SOneOf(<<SString, SNumber, SString>>))>>,
     <<ParameterRef>>,
     <<Parameter("Header", "a", SString)>>,
     <<Parameter("Cookie", "a", SString)>>,
     <<ParameterContent("Query", "a")>>}

Json(schema) == Content(<<Media("application/json", <<schema>>)>>)

RequestBodies ==
    {<<>>,
     <<Json(SRef(Prefixed(Foo_x)))>>,
     <<Content(<<Media("application/json", <<SString>>), Media("text/xml", <<SString>>)>>)>>,
     <<Content(<<Media("text/xml", <<SString>>)>>)>>,
     <<Content(<<Media("application/json", <<>>)>>)>>,
     <<ContentRef>>}

ResponseLists ==
    {<<>>,
     <<StatusResponse("200", Json(SOneOf(<<SNumber, SString, SNumber>>)))>>,
     <<StatusResponse("200", Content(<<Media("text/plain", <<SString>>)>>))>>,
     <<StatusResponse("200", Content(<<Media("text/plain", <<SNumber>>)>>))>>,
     <<StatusResponse("200", Content(<<Media("text/event-stream", <<SRef(Prefixed(Foo))>>)>>))>>,
     <<StatusResponse("200", Content(<<Media("application/json", <<SString>>),
                                       Media("text/plain", <<SString>>)>>))>>,
     <<StatusResponse("200", Content(<<Media("text/xml", <<SString>>)>>))>>,
     <<StatusResponse("200", ContentRef)>>,
     <<StatusResponse("200", Content(<<Media("text/plain", <<SString>>)>>)),
       StatusResponse("404", Json(SNumber))>>,
     <<StatusResponse("200", Json(SString)), StatusResponse("404", ContentRef)>>,
     <<StatusResponse("200", Content(<<>>)), StatusResponse("404", Json(SString))>>}

UsersPath == <<<<"api">>, <<"users">>>>

OpComponents == <<Named(Foo, ObjKindB), Named(Foo_x, ObjB)>>

OpDocs ==
    {InputApi(<<PathItem(UsersPath,
                 [NoOps EXCEPT !["GET"] = <<OapiOperation(ps, b, rs)>>,
                               !["POST"] = IF post THEN <<OapiOperation(<<>>, b, rs)>> ELSE <<>>])>>,
              OpComponents) :
        ps \in ParameterLists, b \in RequestBodies, rs \in ResponseLists, post \in BOOLEAN}

\* Documents that place one construct at one site (SiteDocs): a component
\* schema that is declared, one that is only skipped, one that is inlined,
\* a property, a response schema.
OneEntry == Discriminator("kind", <<MapEntry(<<"a">>, Prefixed(Foo_x))>>, 0)

Constructs ==
    {SAnyOf(<<SString>>), SNot(<<SString>>), SAny,
     SDiscriminated(<<>>, {}, OneEntry),
     SDiscriminated(<<>>, {}, Discriminator("kind", <<>>, 0)),
     SDiscriminated(<<>>, {}, Discriminator("kind",
         <<MapEntry(<<"a">>, Prefixed(Foo_x)), MapEntry(<<"b">>, Prefixed(Foo_x))>>, 1)),
     [SOneOf(<<SString, SNumber>>) EXCEPT !.discriminator = <<OneEntry>>],
     SArray(<<SString>>, <<1>>, <<>>),
     SArray(<<SString>>, <<1>>, <<2>>),
     SArray(<<>>, <<>>, <<>>),
     SEnum(<<<<<<"x">>>>, <<>>>>),
     SString}

OkResponse(schema) == <<StatusResponse("200", Json(schema))>>

GetUsers(rs) ==
    <<PathItem(UsersPath, [NoOps EXCEPT !["GET"] = <<OapiOperation(<<>>, <<>>, rs)>>])>>

SiteDocs ==
    UNION {
        {InputApi(GetUsers(OkResponse(SString)), <<Named(Foo, c), Named(Foo_x, ObjB)>>),
         InputApi(GetUsers(OkResponse(SString)), <<Named(Foo, ObjB), Named(Foo_x, c)>>),
         InputApi(GetUsers(OkResponse(SString)),
                  <<Named(Foo, SObject(<<Prop("a", SRef(Prefixed(Foo_x)))>>, {})), Named(Foo_x, c)>>),
         InputApi(GetUsers(OkResponse(SString)),
                  <<Named(Foo, SObject(<<Prop("a", c)>>, {})), Named(Foo_x, ObjB)>>),
         InputApi(GetUsers(OkResponse(c)), <<Named(Foo, ObjB), Named(Foo_x, ObjB)>>)} :
        c \in Constructs}

\* Documents without components, with a component that is a reference, with
\* a path item that is a reference or has parameters, with an api prefix.
MiscDocs ==
    {[InputApi(<<>>, <<>>) EXCEPT !.components = <<>>],
     [InputApi(GetUsers(OkResponse(SString)), <<>>) EXCEPT !.components = <<>>],
     InputApi(<<>>, <<Named(Foo, SRef(Prefixed(Bar))), Named(Bar, ObjB)>>),
     InputApi(<<>>, <<Named(Dee, SObject(<<Prop("a", SRef(Prefixed(Foo_x)))>>, {})),
                      Named(Foo_x, SRef(Prefixed(Bar))), Named(Bar, ObjB)>>),
     InputApi(<<[PathItem(UsersPath, NoOps) EXCEPT !.ref = TRUE]>>, OpComponents),
     InputApi(<<[PathItem(UsersPath, NoOps) EXCEPT !.parameters = 1]>>, OpComponents),
     [InputApi(GetUsers(OkResponse(SString)), OpComponents) EXCEPT !.api_prefix = <<<<<<"api">>>>>>],
     [InputApi(GetUsers(OkResponse(SString)), OpComponents) EXCEPT !.api_prefix = <<<<<<"v1">>>>>>]}

\* Documents with a string enumeration: the values in every order, with
\* repetitions, after no schema or after an enumeration that interns
\* Ident("b") first.
EnumValues == {<<<<"a">>>>, <<<<"b">>>>}

EnumSeqs == UNION {[1..n -> EnumValues] : n \in 1..MaxMembers}

EnumDocs ==
    {InputApi(<<>>, NameAll(pre \o <<SEnum(vs)>>, 1)) :
        pre \in {<<>>, <<SEnum(<<<<<<"b">>>>>>)>>}, vs \in EnumSeqs}

Docs == ShapeDocs \cup DiscDocs \cup RefDocs \cup OpDocs \cup SiteDocs \cup MiscDocs \cup EnumDocs

(***************************************************************************)
(* The run of generate_ts (ts.rs 14-111): the path items one after the     *)
(* other, the operation map, the component schemas one after the other,    *)
(* the type declarations.  A panic ends the run without output: why names  *)
(* the panic, and no step is taken once it is set.                         *)
(***************************************************************************)
Init ==
    /\ doc \in Docs
    /\ store = <<>>
    /\ pc = "operations"
    /\ idx = 1
    /\ operations = <<>>
    /\ types = <<>>
    /\ buf = <<"preamble.ts">>
    /\ why = ""
    /\ memo = NoMemo

\* a panic: the run stops where it is, buf is dropped with the stack
Panicked(st, w) ==
    /\ store' = st
    /\ why' = w
    /\ buf' = <<>>
    /\ UNCHANGED <<doc, pc, idx, operations, types, memo>>

PathItemDone(r) ==
    IF r.ok
    THEN /\ store' = r.st
         /\ operations' = operations \o r.out
         /\ idx' = idx + 1
         /\ memo' = MemoPathItem(doc, r.st, memo, doc.paths[idx], 1)
         /\ UNCHANGED <<doc, pc, types, buf, why>>
    ELSE Panicked(r.st, r.why)

TypeDone(r) ==
    IF r.ok
    THEN /\ store' = r.st
         /\ types' = types \o r.out
         /\ idx' = idx + 1
         /\ memo' = MemoType(doc, r.st, memo, doc.components[1].schemas[idx].name, r.out)
         /\ UNCHANGED <<doc, pc, operations, buf, why>>
    ELSE Panicked(r.st, r.why)

\* ts.rs 27-54: one path item
GenPathItem ==
    /\ why = ""
    /\ pc = "operations"
    /\ idx <= Len(doc.paths)
    /\ PathItemDone(GenPathItemOps(doc, store, doc.paths[idx]))

\* ts.rs 57-76: the operation map is written; components is unwrapped
WriteOperations ==
    /\ why = ""
    /\ pc = "operations"
    /\ idx > Len(doc.paths)
    /\ IF doc.components = <<>>
       THEN Panicked(store, "unwrap: no components")
       ELSE /\ buf' = buf \o ApiText(operations)
            /\ pc' = "types"
            /\ idx' = 1
            /\ UNCHANGED <<doc, store, operations, types, why, memo>>

\* ts.rs 77-91: one component schema
GenType ==
    /\ why = ""
    /\ pc = "types"
    /\ idx <= Len(doc.components[1].schemas)
    /\ TypeDone(GenTypeOf(doc, store, doc.components[1].schemas[idx].name))

\* ts.rs 93-110: the declarations are written and buf is returned
WriteTypes ==
    /\ why = ""
    /\ pc = "types"
    /\ idx > Len(doc.components[1].schemas)
    /\ buf' = buf \o Flatten([i \in 1..Len(types) |-> TypeText(store, types[i])])
    /\ pc' = "done"
    /\ UNCHANGED <<doc, store, idx, operations, types, why, memo>>

Next == GenPathItem \/ WriteOperations \/ GenType \/ WriteTypes

Spec == Init /\ [][Next]_vars

(***************************************************************************)
(* Properties.                                                             *)
(***************************************************************************)
Types == 1..Len(store)

Declarations == 1..Len(types)

\* the sequence s in the order p
Permuted(s, p) == [i \in 1..Len(s) |-> s[p[i]]]

\* C1: simplify is idempotent: for every Type t of the store (every type
\* that resolution or simplification produced), simplifying the simplified
\* type returns the same interned Type.
C1_SimplifyIdempotent ==
    \A t \in Types :
        LET r == simplify_ty(store, t)
        IN  simplify_ty(r.st, r.ty).ty = r.ty

\* a declared type whose resolution is an Or of three members, one of them an
\* And, and whose simplification has dropped a member and is left unchanged
\* by a second simplification
C1_Witness ==
    \E i \in Declarations :
        /\ store[types[i].resolved].k = "Or"
        /\ Len(store[types[i].resolved].ts) = 3
        /\ \E j \in 1..3 : store[store[types[i].resolved].ts[j]].k = "And"
        /\ Len(store[types[i].ty].ts) = 2
        /\ simplify_ty(store, types[i].ty).ty = types[i].ty

\* C2: union dedup and order independence: the simplification of every Or
\* of the store has no two equal members, has as many members as its
\* members have distinct simplifications, and is the same Type for every
\* order of the input member list.
C2_UnionDedupOrder ==
    \A t \in Types :
        store[t].k = "Or" =>
            LET r == simplify_ty(store, t)
                members == r.st[r.ty].ts
            IN  /\ r.st[r.ty].k = "Or"
                /\ \A i, j \in 1..Len(members) : i < j => members[i] # members[j]
                /\ Len(members) =
                     Cardinality({simplify_ty(r.st, store[t].ts[i]).ty : i \in 1..Len(store[t].ts)})
                /\ \A p \in Permutations(1..Len(store[t].ts)) :
                     LET o == TypeNew(r.st, KOr(Permuted(store[t].ts, p)))
                     IN  simplify_ty(o.st, o.ty).ty = r.ty

\* a declared Or([A, A, B]) with B interned before A, simplified to Or([B, A])
C2_Witness ==
    \E i \in Declarations :
        LET ms == store[types[i].resolved].ts
        IN  /\ store[types[i].resolved].k = "Or"
            /\ Len(ms) = 3
            /\ ms[1] = ms[2]
            /\ ms[3] < ms[1]
            /\ store[types[i].ty] = KOr(<<ms[3], ms[1]>>)

\* the types the Objects options give the field f
FieldTypes(st, options, f) ==
    {st[options[i]].fs[f].ty : i \in {j \in 1..Len(options) : st[options[j]].fs[f].present}}

\* C3: intersection merge: when every (simplified) member of an And is an
\* Object, simplify returns one Object that has exactly the fields of the
\* members, and a field that the members type only as one Ident literal and
\* as plain String keeps the Ident literal, whichever member comes first.
C3_MergeLiteralWins ==
    \A t \in Types :
        store[t].k = "And" =>
            LET res == simplify_ty(store, t)
                r == SimplifyAll(store, store[t].ts)
                options == SortedDedup(r.tys)
                merged == res.st[res.ty]
            IN  AllObjects(r.st, options) =>
                  /\ merged.k = "Object"
                  /\ \A f \in FieldNames :
                        LET tys == FieldTypes(res.st, options, f)
                            idents == {ty \in tys : res.st[ty].k = "Ident"}
                        IN  /\ merged.fs[f].present <=> tys # {}
                            /\ (/\ Cardinality(idents) = 1
                                /\ \A ty \in tys \ idents : res.st[ty].k = "String")
                               => merged.fs[f].ty \in idents

\* the And of two Objects that type the field kind, the first in the order
\* of the ids as a k1 and the second as a k2
MergesKind(t, k1, k2) ==
    /\ store[t].k = "And"
    /\ Len(store[t].ts) = 2
    /\ LET o == SortedDedup(store[t].ts)
       IN  /\ Len(o) = 2
           /\ \A i \in 1..2 : store[o[i]].k = "Object" /\ store[o[i]].fs["kind"].present
           /\ store[store[o[1]].fs["kind"].ty].k = k1
           /\ store[store[o[2]].fs["kind"].ty].k = k2

\* a finished run that has merged both an And whose Ident member comes first
\* and an And whose String member comes first, the Ident kept in both
C3_Witness ==
    /\ pc = "done"
    /\ \E t \in Types :
         /\ MergesKind(t, "Ident", "String")
         /\ store[store[simplify_ty(store, t).ty].fs["kind"].ty].k = "Ident"
    /\ \E t \in Types :
         /\ MergesKind(t, "String", "Ident")
         /\ store[store[simplify_ty(store, t).ty].fs["kind"].ty].k = "Ident"

\* the component schemas of the document
Components == IF doc.components = <<>> THEN <<>> ELSE doc.components[1].schemas

DeclaredAs(name) == {d \in Declarations : types[d].name = name}

\* a mapping target, written as a schema name or as a reference: its name,
\* and the component schema of that name
TargetName(target) ==
    LET n == strip_prefix(target) IN IF n = <<>> THEN target ELSE n[1]

TargetSchema(target) == Lookup(Components, TargetName(target))

PlainObject(s) == ~s.ref /\ s.kind = "Object" /\ s.discriminator = <<>>

\* the i-th component is declared and carries a discriminator with two or
\* more mapping entries and no extensions
Discriminated(i) ==
    LET s == Components[i].schema
    IN  /\ ~contains_underscore(Components[i].name)
        /\ ~s.ref /\ s.kind = "Object" /\ s.discriminator # <<>>
        /\ s.discriminator[1].extensions = 0
        /\ Len(s.discriminator[1].mapping) >= 2

TargetsPlain(i) ==
    \A j \in 1..Len(Components[i].schema.discriminator[1].mapping) :
        LET t == TargetSchema(Components[i].schema.discriminator[1].mapping[j].target)
        IN  t # <<>> /\ PlainObject(t[1])

\* ty is the marker Object {p: required Ident(tag)}
IsMarker(ty, p, tag) ==
    /\ store[ty].k = "Object"
    /\ \A f \in FieldNames : store[ty].fs[f].present <=> f = p
    /\ ~store[ty].fs[p].optional
    /\ store[store[ty].fs[p].ty] = KIdent(tag)

\* ty is the resolution by name of the target: the placeholder of its name
\* or the resolved type of the schema of that name
ResolvesTarget(ty, target) ==
    \/ store[ty] = KReference(TargetName(target))
    \/ LET r == schema_ty(doc, store, Schema(TRUE, TargetName(target), TargetSchema(target)[1]), {})
       IN  r.ok /\ r.ty = ty

\* C4: discriminated union resolution: resolving a declared object schema
\* that carries a discriminator with property name p and two or more mapping
\* entries, the targets written as schema names or as references to plain
\* object schemas of the document, does not fail, and returns the Or of one
\* And([Object{p: required Ident(tag)}, T]) per mapping entry, T the
\* resolution by name of the target, whatever the schema's own properties.
C4_DiscriminatedUnion ==
    \A i \in 1..Len(Components) :
        (Discriminated(i) /\ TargetsPlain(i)) =>
            LET m == Components[i].schema.discriminator[1].mapping
                p == Components[i].schema.discriminator[1].property_name
            IN  /\ ~(pc = "types" /\ idx = i /\ why # "")
                /\ \A d \in DeclaredAs(Components[i].name) :
                     LET t == store[types[d].resolved]
                     IN  /\ t.k = "Or"
                         /\ Len(t.ts) = Len(m)
                         /\ \A j \in 1..Len(m) :
                              /\ store[t.ts[j]].k = "And"
                              /\ Len(store[t.ts[j]].ts) = 2
                              /\ IsMarker(store[t.ts[j]].ts[1], p, m[j].tag)
                              /\ ResolvesTarget(store[t.ts[j]].ts[2], m[j].target)

\* the target schema s leaves the tag of the field p alone: it does not
\* declare p, or declares it as plain string
TagCompatible(s, p) ==
    \A q \in 1..Len(s.properties) :
        s.properties[q].name = p => s.properties[q].schema = SString

\* ty is schema's shallow resolution by the rule: the placeholder of a name
\* without underscore, the resolved type of the schema of a name with an
\* underscore, the resolved type of an inline schema
ShallowRule(schema, ty) ==
    IF schema.ref
    THEN LET n == strip_prefix(schema.reference)
         IN  /\ n # <<>>
             /\ IF ~contains_underscore(n[1]) THEN store[ty] = KReference(n[1])
                ELSE LET s == schema_by_name(doc, n[1])
                     IN  /\ s.ok /\ s.found
                         /\ LET r == schema_ty(doc, store, s.schema[1], {})
                            IN  r.ok /\ r.ty = ty /\ r.st = store
    ELSE LET r == schema_ty(doc, store, from_oapi(schema), {})
         IN  r.ok /\ r.ty = ty /\ r.st = store

\* ty is one Object with the tag at p and the fields of the target schema s
Collapsed(ty, p, tag, s) ==
    /\ store[ty].k = "Object"
    /\ \A f \in FieldNames :
         store[ty].fs[f].present <=>
            (f = p \/ \E q \in 1..Len(s.properties) : s.properties[q].name = f)
    /\ store[store[ty].fs[p].ty] = KIdent(tag)
    /\ \A q \in 1..Len(s.properties) :
         s.properties[q].name # p =>
            /\ store[ty].fs[s.properties[q].name].optional = ~(s.properties[q].name \in s.required)
            /\ \E x \in Types :
                 /\ ShallowRule(s.properties[q].schema, x)
                 /\ simplify_ty(store, x).ty = store[ty].fs[s.properties[q].name].ty

DeclaredSchema(d) == Lookup(Components, types[d].name)[1]

\* C6: shallow resolution rule: in every declared type, the type of each
\* property of an object schema, of each member of a oneOf or allOf, and of
\* the items of an array is the placeholder Reference(name) when the schema
\* there is a reference to a name without underscore, the resolved type of
\* the named schema when the name contains an underscore, and the schema's
\* resolved type when it is inline.
C6_ShallowRule ==
    \A d \in Declarations :
        LET s == DeclaredSchema(d)
            t == store[types[d].resolved]
        IN  CASE PlainObject(s) ->
                   \A q \in 1..Len(s.properties) :
                       ShallowRule(s.properties[q].schema, t.fs[s.properties[q].name].ty)
              [] s.kind \in {"OneOf", "AllOf"} ->
                   /\ Len(t.ts) = Len(s.of)
                   /\ \A j \in 1..Len(s.of) : ShallowRule(s.of[j], t.ts[j])
              [] s.kind = "Array" ->
                   \A j \in 1..Len(t.ts) : ShallowRule(s.items[1], t.ts[j])
              [] OTHER -> TRUE

\* the declaration d is of an object schema whose property a is a reference
\* to the name n, and the type of its field a is of the kind k
FieldByReference(d, n, k) ==
    /\ PlainObject(DeclaredSchema(d))
    /\ DeclaredSchema(d).properties = <<Prop("a", SRef(Prefixed(n)))>>
    /\ store[store[types[d].resolved].fs["a"].ty].k = k

\* a finished run that declared an object with a property referring to Foo,
\* kept as a placeholder, and one with a property referring to Foo_x, inlined
C6_Witness ==
    /\ pc = "done"
    /\ \E d \in Declarations : FieldByReference(d, Foo, "Reference")
    /\ \E d \in Declarations : FieldByReference(d, Foo_x, "Object")

\* the schema s is or holds a construct of the unsupported schema taxonomy:
\* anyOf, not, free-form, a discriminator with fewer than two mapping entries
\* or with extensions, array bounds that are not uniform
RECURSIVE UnsupportedSchema(_)
UnsupportedSchema(s) ==
    /\ ~s.ref
    /\ \/ s.kind \in {"AnyOf", "Not", "Any"}
       \/ /\ s.discriminator # <<>>
          /\ \/ Len(s.discriminator[1].mapping) < 2
             \/ s.discriminator[1].extensions # 0
       \/ s.kind = "Array" /\ s.min_items # s.max_items
       \/ \E q \in 1..Len(s.properties) : UnsupportedSchema(s.properties[q].schema)
       \/ \E j \in 1..Len(s.items) : UnsupportedSchema(s.items[j])
       \/ \E j \in 1..Len(s.of) : UnsupportedSchema(s.of[j])

UnsupportedMedia(content, media_types) ==
    \/ Len(content) > 1
    \/ \E j \in 1..Len(content) :
         \/ ~(content[j].media_type \in media_types)
         \/ \E k \in 1..Len(content[j].schema) : UnsupportedSchema(content[j].schema[k])

\* the operation op holds a construct of the unsupported operation taxonomy
UnsupportedOperation(op) ==
    \/ \E j \in 1..Len(op.parameters) :
         \/ op.parameters[j].ref
         \/ op.parameters[j].loc \in {"Header", "Cookie"}
         \/ op.parameters[j].content
         \/ UnsupportedSchema(op.parameters[j].schema)
    \/ \E j \in 1..Len(op.request_body) :
         ~op.request_body[j].ref
         /\ UnsupportedMedia(op.request_body[j].content, {"application/json"})
    \/ \E j \in 1..Len(op.responses) :
         \/ op.responses[j].response.ref
         \/ UnsupportedMedia(op.responses[j].response.content,
                             {"application/json", "text/plain", "text/event-stream"})

HasUnsupported(api) ==
    \/ \E i \in 1..Len(api.paths) : \E j \in 1..Len(Methods) :
         /\ ~api.paths[i].ref
         /\ api.paths[i].ops[Methods[j]] # <<>>
         /\ UnsupportedOperation(api.paths[i].ops[Methods[j]][1])
    \/ \E c \in 1..Len(api.components) : \E i \in 1..Len(api.components[c].schemas) :
         UnsupportedSchema(api.components[c].schemas[i].schema)

\* C7: fail-loud propagation: a run over a document that contains a
\* construct of the unsupported taxonomy never completes: it does not reach
\* the end of generate_ts, where the output text is returned.
C7_FailLoud == HasUnsupported(doc) => pc # "done"

\* the names of the Reference placeholders in the type ty
RECURSIVE RefsIn(_, _)
RefsIn(st, ty) ==
    IF st[ty].k = "Reference" THEN {st[ty].s}
    ELSE UNION ({RefsIn(st, st[ty].ts[j]) : j \in 1..Len(st[ty].ts)}
                \cup {RefsIn(st, st[ty].fs[f].ty) : f \in {g \in FieldNames : st[ty].fs[g].present}})

\* C8: unresolved references fail: every Reference(name) in a declared type
\* names a component schema of the document (a reference to a schema that
\* does not exist has ended the run before the type was produced).
C8_ReferencesResolve ==
    \A d \in Declarations :
        \A n \in RefsIn(store, types[d].ty) : Lookup(Components, n) # <<>>

\* ts.rs 71-91: all component schemas, in the order of the document, from
\* the store st on: [ok, st, types]
RECURSIVE RunTypes(_, _, _, _)

RunTypesNext(api, r, i, acc) ==
    IF ~r.ok THEN [ok |-> FALSE, st |-> r.st, types |-> acc]
    ELSE RunTypes(api, r.st, i + 1, acc \o r.out)

RunTypes(api, st, i, acc) ==
    IF i > Len(api.components[1].schemas) THEN [ok |-> TRUE, st |-> st, types |-> acc]
    ELSE RunTypesNext(api, GenTypeOf(api, st, api.components[1].schemas[i].name), i, acc)

\* the emitted text of each declared name
TypeTexts(r) == {<<r.types[i].name, ts(r.st, r.types[i].ty)>> : i \in 1..Len(r.types)}

SameTexts(a, b) == a.ok = b.ok /\ (a.ok => TypeTexts(a) = TypeTexts(b))

\* the document with its component schemas in the order p
Visited(p) == [doc EXCEPT !.components = <<[schemas |-> Permuted(Components, p)]>>]

\* C9: canonical order is execution-order independent: from the start of
\* the declarations on, visiting the component schemas in any other order
\* gives every declared name the same emitted text.
C9_OrderIndependent ==
    (pc = "types" /\ idx = 1 /\ why = "") =>
        \A p \in Permutations(1..Len(Components)) :
            SameTexts(RunTypes(doc, store, 1, <<>>), RunTypes(Visited(p), store, 1, <<>>))

\* C10: cyclic schemas are handled: no run is ended by a cycle of schema
\* references, whatever the names of the schemas on the cycle.
C10_CyclesHandled == why # "salsa: cycle detected in schema_ty"

\* C11: at-most-once resolution: within a run, the named Schemas made for
\* one component schema have run the body of schema_ty at most once in all,
\* whatever the keys (with or without the prefix) schema_by_name was asked
\* with and however often, and the body of simplify_ty has run at most once
\* for each Type.
C11_AtMostOnce ==
    /\ \A i, j \in 1..Len(memo.made) :
         memo.made[i] = memo.made[j] =>
            memo.ty_runs[i] + (IF i = j THEN 0 ELSE memo.ty_runs[j]) <= 1
    /\ \A ty \in 1..Len(memo.simp_runs) : memo.simp_runs[ty] <= 1

\* a finished run that asked for one component schema twice and resolved it
\* once, and simplified a type
C11_Witness ==
    /\ pc = "done"
    /\ \E i, j \in 1..Len(memo.asked) : \E id \in 1..Len(memo.made) :
         /\ i < j
         /\ memo.asked[i] = memo.asked[j]
         /\ memo.made[id] = TargetName(memo.asked[i])
         /\ memo.ty_runs[id] = 1
    /\ \E ty \in 1..Len(memo.simp_runs) : memo.simp_runs[ty] = 1

\* the values of a string enumeration, declaration order
EnumValuesOf(s) == [j \in 1..Len(s.enumeration) |-> s.enumeration[j][1]]

IsEnum(s) == ~s.ref /\ s.kind = "String" /\ s.enumeration # <<>>

IdentsOnly(ty) ==
    /\ store[ty].k = "Or"
    /\ \A j \in 1..Len(store[ty].ts) : store[store[ty].ts[j]].k = "Ident"

\* C12: enum round-trip: a declared string schema with a non-empty
\* enumeration [v1, ..., vn] resolves to an Or whose members are Ident(v1),
\* ..., Ident(vn) in declaration order, constants of that resolved type is
\* exactly [v1, ..., vn] in declaration order, and constants is none for
\* every type that is not an Or made only of Ident members.
C12_EnumRoundTrip ==
    /\ \A d \in Declarations :
         IsEnum(DeclaredSchema(d)) =>
            /\ store[types[d].resolved].k = "Or"
            /\ Len(store[types[d].resolved].ts) = Len(DeclaredSchema(d).enumeration)
            /\ \A j \in 1..Len(DeclaredSchema(d).enumeration) :
                 store[store[types[d].resolved].ts[j]] = KIdent(EnumValuesOf(DeclaredSchema(d))[j])
            /\ constants(store, types[d].resolved) = <<EnumValuesOf(DeclaredSchema(d))>>
    /\ \A ty \in Types : ~IdentsOnly(ty) => constants(store, ty) = <<>>

\* an enumeration of several values, some repeated or in another order than
\* the one the Idents were interned in, has been resolved
C12_Witness ==
    \E d \in Declarations :
        /\ IsEnum(DeclaredSchema(d))
        /\ Len(DeclaredSchema(d).enumeration) >= 2
        /\ types[d].resolved # types[d].ty
        /\ constants(store, types[d].resolved) = <<EnumValuesOf(DeclaredSchema(d))>>

\* the Types stored in an Operation record: the path and query parameters,
\* the body and the response (a Plain response stores none)
OperationTypes(op) ==
    {op.path_params[f].ty : f \in {g \in FieldNames : op.path_params[g].present}}
    \cup {op.query[f].ty : f \in {g \in FieldNames : op.query[g].present}}
    \cup {op.body[i].ty : i \in 1..Len(op.body)}
    \cup {op.response[i].ty : i \in {j \in 1..Len(op.response) : op.response[j].kind # "Plain"}}

Canonical(ty) == simplify_ty(store, ty).ty = ty

\* C13: operation types are canonical: every Type stored in an Operation
\* record (each pathParams and queryParams entry, the body type, the
\* response type) equals its own simplify.
C13_OperationTypesCanonical ==
    \A i \in 1..Len(operations) : \A ty \in OperationTypes(operations[i].op) : Canonical(ty)

\* the first method of a path item that has an operation
HasOps(item) == \E i \in 1..Len(Methods) : item.ops[Methods[i]] # <<>>

FirstOp(item) ==
    item.ops[Methods[CHOOSE i \in 1..Len(Methods) :
                        /\ item.ops[Methods[i]] # <<>>
                        /\ \A j \in 1..(i - 1) : item.ops[Methods[j]] = <<>>]][1]

ResponseMedia == {"text/plain", "application/json", "text/event-stream"}

NotString(t) == t.ok /\ t.st[t.ty].k # "String"

\* a failing entry of the response map: a response $ref, content without
\* exactly one media type, an unrecognised media type, text/plain whose type
\* is not exactly String
FailingEntry(res) ==
    \/ res.ref
    \/ Len(res.content) # 1
    \/ /\ ~res.ref
       /\ Len(res.content) = 1
       /\ \/ res.content[1].media_type \notin ResponseMedia
          \/ /\ res.content[1].media_type = "text/plain"
             /\ res.content[1].schema # <<>>
             /\ NotString(SimplifiedShallow(doc, store, res.content[1].schema[1]))

\* the ResponseKind of an entry that does not fail
KindOfEntry(st, res) ==
    IF res.content[1].media_type = "text/plain" THEN [kind |-> "Plain", ty |-> 0]
    ELSE [kind |-> IF res.content[1].media_type = "application/json" THEN "Json" ELSE "EventStream",
          ty |-> SimplifiedShallow(doc, st, res.content[1].schema[1]).ty]

\* the response of the Operation made from o is the kind of the last entry
LastEntryStays(st, o, op) ==
    op.response = IF o.responses = <<>> THEN <<>>
                  ELSE <<KindOfEntry(st, o.responses[Len(o.responses)].response)>>

Selected(o, r) ==
    /\ (\E k \in 1..Len(o.responses) : FailingEntry(o.responses[k].response)) => ~r.ok
    /\ r.ok => LastEntryStays(r.st, o, r.op)

\* C14: response selection: a failing entry of the response map, last or
\* not, fails the whole operation; otherwise the Operation's response is the
\* ResponseKind of the entry processed last, in the order of the map, and is
\* absent when the map is empty.  Stated of the operation the run is about
\* to make and of every Operation it has recorded.
C14_ResponseSelection ==
    /\ (pc = "operations" /\ why = "" /\ idx <= Len(doc.paths)) =>
          (HasOps(doc.paths[idx]) =>
              Selected(FirstOp(doc.paths[idx]),
                       operation(doc, store, doc.paths[idx].path, FirstOp(doc.paths[idx]))))
    /\ \A i \in 1..Len(operations) : \A k \in 1..Len(doc.paths) :
          (doc.paths[k].path = operations[i].op.path /\ doc.paths[k].ops[operations[i].method] # <<>>) =>
              /\ \A e \in 1..Len(doc.paths[k].ops[operations[i].method][1].responses) :
                    ~FailingEntry(doc.paths[k].ops[operations[i].method][1].responses[e].response)
              /\ LastEntryStays(store, doc.paths[k].ops[operations[i].method][1], operations[i].op)

\* an Operation was recorded whose first entry is text/plain and whose last
\* entry is JSON, with the response of the last entry
C14_Witness ==
    \E i \in 1..Len(operations) : \E k \in 1..Len(doc.paths) :
        /\ doc.paths[k].path = operations[i].op.path
        /\ doc.paths[k].ops[operations[i].method] # <<>>
        /\ Len(doc.paths[k].ops[operations[i].method][1].responses) >= 2
        /\ doc.paths[k].ops[operations[i].method][1].responses[1].response.content[1].media_type = "text/plain"
        /\ operations[i].op.response # <<>>
        /\ operations[i].op.response[1].kind = "Json"

\* C15: operation names are unique keys: no two operations of the emitted
\* operation map have the same name; in particular two operations of
\* different methods on one path template have distinct names.
C15_OperationNamesUnique ==
    \A i, j \in 1..Len(operations) :
        operations[i].name = operations[j].name => i = j

====
